---- MODULE Spec2Model ----
(***************************************************************************)
(* type_key_vec: a vector (TypeKeyVec<K, V>) and a slice view              *)
(* (TypeKeySlice<K, V>) that can only be indexed by a key type K, the      *)
(* Enumerate adapter handing back typed keys, and the hand-over of the     *)
(* buffer to a data-parallel iterator.                                     *)
(*                                                                         *)
(* Positions are zero-based as in the source; TLA+ sequences are one-based,*)
(* so the element at position p of a buffer s is s[p + 1].                 *)
(***************************************************************************)
EXTENDS Integers, Sequences, FiniteSets, Bags, TLC

\* ------------------------------------------------------------------ bounds

\* Longest buffer the model builds (push is capped at this length).
MaxLen == 3

\* Largest capacity the allocator hands out in the model.
MaxCap == MaxLen + 1

\* Largest raw position a key of the model converts to: past MaxLen, so that
\* out-of-range keys exist for a buffer of every length.
MaxKey == MaxLen + 2

\* The element type V: two distinguishable values.
Values == {"a", "b"}

\* ------------------------------------------------------- the key type K

\* K::from(usize): the newtype constructor wrapping a raw position.
KeyFrom(i) == [raw |-> i]

\* K::into() -> usize: unwraps the raw position of a key.
KeyInto(k) == k.raw

Keys == {KeyFrom(i) : i \in 0..MaxKey}

\* Placeholder recorded for an operation that takes no key.
NoKey == [raw |-> -1]

\* ------------------------------------------------------- results of calls

None == [tag |-> "None"]
Some(p, v) == [tag |-> "Some", at |-> p, val |-> v]
Unit == [tag |-> "Unit"]
Panic == [tag |-> "Panic"]
Item(k, p, v) == [tag |-> "Item", key |-> k, at |-> p, val |-> v]

IsNone(r) == r.tag = "None"
IsSome(r) == r.tag = "Some"
IsPanic(r) == r.tag = "Panic"
IsItem(r) == r.tag = "Item"

\* ------------------------------------------------------- buffers

Seqs(n) == UNION {[1..m -> Values] : m \in 0..n}

\* The element at zero-based position p.
At(s, p) == s[p + 1]

\* <[V]>::get(i): a reference to the element at i, or None past the end.
SliceGet(s, i) == IF i < Len(s) THEN Some(i, At(s, i)) ELSE None

\* <[V]>::index(i): a reference to the element at i; out of bounds panics.
SliceIndex(s, i) == IF i < Len(s) THEN Some(i, At(s, i)) ELSE Panic

\* A store that lands at the position counted from the end of the buffer.
WriteAtMirrored(s, i, x) == [s EXCEPT ![Len(s) - i] = x]

\* Store of x through a reference to the element at position i.
WriteAt(s, i, x) == [s EXCEPT ![i + 1] = x]

\* A push that inserts at the front.
VecPushFront(s, v) == <<v>> \o s

\* Vec::push: the value goes to position len.
VecPush(s, v) == Append(s, v)

\* Vec::clear: every element is dropped.
VecClear(s) == <<>>

\* A fill that moves the value into the first position only.
SliceFillFirst(s, v) == [p \in 1..Len(s) |-> IF p = 1 THEN v ELSE s[p]]

\* <[V]>::fill: every position receives a clone of the value.
SliceFill(s, v) == [p \in 1..Len(s) |-> v]

\* ------------------------------------------------------------------ state

VARIABLES
    inner,    \* the elements of the buffer (Vec<V>), in position order
    cap,      \* the capacity reserved for the buffer
    owner,    \* "vec": held as a TypeKeyVec<K, V>; "raw": held as a plain Vec<V>
    view,     \* the live TypeKeySlice reference borrowed from the buffer, if any
    iter,     \* the live Enumerate adapter over the view, if any
    yielded,  \* the items the adapter has handed out, in order
    par,      \* the live parallel traversal, if any
    res,      \* the last call and what it returned
    last,     \* per position, the value most recently stored there
    pushed    \* the values pushed since the vector was created empty, while
              \* nothing but pushes and reads has happened to it

vars == <<inner, cap, owner, view, iter, yielded, par, res, last, pushed>>

Positions == 0..(MaxLen - 1)

NoValue == "-"

NoView == [ptr |-> "null", off |-> 0, len |-> 0, mut |-> FALSE]

NoIter == [on |-> FALSE, lo |-> 0, hi |-> 0, count |-> 0, mut |-> FALSE]

NoPar == [on |-> FALSE, tasks |-> EmptyBag, seen |-> <<>>]

Result(op, k, r) == [op |-> op, key |-> k, ret |-> r]

Faulted == res.ret.tag = "Panic"

\* No borrow of the buffer is alive: the owner may be used.
Free == ~Faulted /\ view = NoView /\ ~par.on

Nothing == [p \in Positions |-> NoValue]

Stored(s) == [p \in Positions |-> IF p < Len(s) THEN At(s, p) ELSE NoValue]

\* TypeKeyVec::len
VecLen == Len(inner)

\* TypeKeyVec::is_empty
VecIsEmpty == Len(inner) = 0

\* A get that indexes the buffer directly.
VecGetPanics(key) == SliceIndex(inner, KeyInto(key))

\* TypeKeyVec::get: self.inner.get(key.into())
VecGet(key) == SliceGet(inner, KeyInto(key))

\* TypeKeyVec::get_mut: self.inner.get_mut(key.into())
VecGetMut(key) == SliceGet(inner, KeyInto(key))

\* An index that wraps the position around the length instead of checking it.
VecIndexWrapping(key) ==
    IF Len(inner) = 0 THEN Panic
    ELSE Some(KeyInto(key) % Len(inner), At(inner, KeyInto(key) % Len(inner)))

\* Index<K> for TypeKeyVec: &self.inner[index.into()]
VecIndex(key) == SliceIndex(inner, KeyInto(key))

\* IndexMut<K> for TypeKeyVec: &mut self.inner[index.into()]
VecIndexMut(key) == SliceIndex(inner, KeyInto(key))

Fresh(ctor) == [ok |-> TRUE, ctor |-> ctor, vals |-> <<>>]

Forgotten == [ok |-> FALSE, ctor |-> "", vals |-> <<>>]

Init ==
    /\ inner = <<>>
    /\ cap = 0
    /\ owner = "vec"
    /\ view = NoView
    /\ iter = NoIter
    /\ yielded = <<>>
    /\ par = NoPar
    /\ res = Result("new", NoKey, Unit)
    /\ last = Nothing
    /\ pushed = Fresh("new")

\* ------------------------------------------------- TypeKeyVec: construction

\* TypeKeyVec::new: Default, an empty Vec with no allocation.
New ==
    /\ Free
    /\ inner' = <<>>
    /\ cap' = 0
    /\ owner' = "vec"
    /\ res' = Result("new", NoKey, Unit)
    /\ last' = Nothing
    /\ pushed' = Fresh("new")
    /\ UNCHANGED <<view, iter, yielded, par>>

\* TypeKeyVec::with_capacity(capacity): an empty Vec with room for at least
\* `capacity` elements.
WithCapacity(capacity) ==
    /\ Free
    /\ inner' = <<>>
    /\ cap' \in capacity..MaxCap
    /\ owner' = "vec"
    /\ res' = Result("with_capacity", NoKey, Unit)
    /\ last' = Nothing
    /\ pushed' = Fresh("with_capacity")
    /\ UNCHANGED <<view, iter, yielded, par>>

\* From<Vec<V>>: adopts the given Vec as it is.
FromVec(s, c) ==
    /\ Free
    /\ inner' = s
    /\ cap' = c
    /\ owner' = "vec"
    /\ res' = Result("from", NoKey, Unit)
    /\ last' = Stored(s)
    /\ pushed' = Forgotten
    /\ UNCHANGED <<view, iter, yielded, par>>

\* TypeKeyVec::into_vec: gives the inner Vec away as a plain Vec<V>.
IntoVec ==
    /\ Free
    /\ owner = "vec"
    /\ owner' = "raw"
    /\ res' = Result("into_vec", NoKey, Unit)
    /\ pushed' = Forgotten
    /\ UNCHANGED <<inner, cap, view, iter, yielded, par, last>>

\* ------------------------------------------------- TypeKeyVec: operations

\* The capacity after a push: kept while the element fits, otherwise the
\* buffer is reallocated with room for at least one more element.
GrowCap(c, n) == IF n < c THEN {c} ELSE (n + 1)..MaxCap

\* TypeKeyVec::push
Push(value) ==
    /\ Free
    /\ owner = "vec"
    /\ Len(inner) < MaxLen
    /\ inner' = VecPush(inner, value)
    /\ cap' \in GrowCap(cap, Len(inner))
    /\ res' = Result("push", NoKey, Unit)
    /\ last' = [last EXCEPT ![Len(inner)] = value]
    /\ pushed' = IF pushed.ok THEN [pushed EXCEPT !.vals = Append(@, value)] ELSE pushed
    /\ UNCHANGED <<owner, view, iter, yielded, par>>

\* A clear that also releases the allocation.
ClearShrinks ==
    /\ Free
    /\ owner = "vec"
    /\ inner' = VecClear(inner)
    /\ cap' = 0
    /\ res' = Result("clear", NoKey, Unit)
    /\ last' = Nothing
    /\ pushed' = Forgotten
    /\ UNCHANGED <<owner, view, iter, yielded, par>>

\* TypeKeyVec::clear
Clear ==
    /\ Free
    /\ owner = "vec"
    /\ inner' = VecClear(inner)
    /\ res' = Result("clear", NoKey, Unit)
    /\ last' = Nothing
    /\ pushed' = Forgotten
    /\ UNCHANGED <<cap, owner, view, iter, yielded, par>>

\* TypeKeyVec::get
Get(key) ==
    /\ Free
    /\ owner = "vec"
    /\ res' = Result("get", key, VecGet(key))
    /\ UNCHANGED <<inner, cap, owner, view, iter, yielded, par, last, pushed>>

\* TypeKeyVec::get_mut, and a store of x through the reference when one is
\* returned.
GetMut(key, x) ==
    /\ Free
    /\ owner = "vec"
    /\ LET r == VecGetMut(key)
       IN /\ res' = Result("get_mut", key, IF IsNone(r) THEN None ELSE Some(r.at, x))
          /\ inner' = IF IsNone(r) THEN inner ELSE WriteAt(inner, r.at, x)
          /\ last' = IF KeyInto(key) < Len(inner)
                     THEN [last EXCEPT ![KeyInto(key)] = x] ELSE last
          /\ pushed' = IF IsNone(r) THEN pushed ELSE Forgotten
    /\ UNCHANGED <<cap, owner, view, iter, yielded, par>>

\* Index<K> for TypeKeyVec: vec[key]
Index(key) ==
    /\ Free
    /\ owner = "vec"
    /\ res' = Result("index", key, VecIndex(key))
    /\ UNCHANGED <<inner, cap, owner, view, iter, yielded, par, last, pushed>>

\* IndexMut<K> for TypeKeyVec: vec[key] = x
IndexMut(key, x) ==
    /\ Free
    /\ owner = "vec"
    /\ LET r == VecIndexMut(key)
       IN /\ res' = Result("index_mut", key, IF IsPanic(r) THEN Panic ELSE Some(r.at, x))
          /\ inner' = IF IsPanic(r) THEN inner ELSE WriteAt(inner, r.at, x)
          /\ last' = IF KeyInto(key) < Len(inner)
                     THEN [last EXCEPT ![KeyInto(key)] = x] ELSE last
          /\ pushed' = IF IsPanic(r) THEN pushed ELSE Forgotten
    /\ UNCHANGED <<cap, owner, view, iter, yielded, par>>

\* ------------------------------------------------- TypeKeySlice: the view

\* The offset of the field `inner: [V]` inside TypeKeySlice: the only other
\* field, `phantom: PhantomData<K>`, has size zero.
InnerOffset == 0

\* Vec::as_slice, or the plain [V] itself: the fat pointer (address, length)
\* to the elements of the buffer.
AsSliceRef == [ptr |-> "inner", len |-> Len(inner)]

\* std::mem::transmute of a reference to [V] into a reference to
\* TypeKeySlice<K, V>: the same address and the same length metadata, the
\* elements being those of the field `inner`.
Transmute(r, m) == [ptr |-> r.ptr, off |-> InnerOffset, len |-> r.len, mut |-> m]

\* The memory a pointer refers to.
Mem(ptr) == IF ptr = "inner" THEN inner ELSE <<>>

\* The field `inner` of the live view: view.len elements from view.off on.
ViewInner == [i \in 1..view.len |-> Mem(view.ptr)[view.off + i]]

\* A view that holds a copy: what is stored through it never reaches the
\* buffer.
WriteBackLost(buf, v, s) == buf

\* The buffer after the elements the view covers became those of s.
WriteBack(buf, v, s) ==
    [i \in 1..Len(buf) |->
        IF i > v.off /\ i <= v.off + v.len THEN s[i - v.off] ELSE buf[i]]

\* TypeKeySlice::len
ViewLen == Len(ViewInner)

\* TypeKeySlice::is_empty
ViewIsEmpty == Len(ViewInner) = 0

\* TypeKeySlice::as_slice / as_mut_slice
ViewAsSlice == ViewInner

\* TypeKeySlice::get: self.inner.get(key.into())
SliceViewGet(key) == SliceGet(ViewInner, KeyInto(key))

\* TypeKeySlice::get_mut: self.inner.get_mut(key.into())
SliceViewGetMut(key) == SliceGet(ViewInner, KeyInto(key))

\* Index<K> for TypeKeySlice: &self.inner[index.into()]
SliceViewIndex(key) == SliceIndex(ViewInner, KeyInto(key))

\* The view is alive and neither iterated nor traversed.
ViewFree == ~Faulted /\ view # NoView /\ ~iter.on /\ ~par.on

\* Deref for TypeKeyVec: self.inner.as_slice().as_ref()
Deref ==
    /\ Free
    /\ owner = "vec"
    /\ view' = Transmute(AsSliceRef, FALSE)
    /\ res' = Result("deref", NoKey, Unit)
    /\ UNCHANGED <<inner, cap, owner, iter, yielded, par, last, pushed>>

\* AsRef<TypeKeySlice<K, V>> for [V]
AsRef ==
    /\ Free
    /\ owner = "raw"
    /\ view' = Transmute(AsSliceRef, FALSE)
    /\ res' = Result("as_ref", NoKey, Unit)
    /\ UNCHANGED <<inner, cap, owner, iter, yielded, par, last, pushed>>

\* AsMut<TypeKeySlice<K, V>> for [V]
AsMut ==
    /\ Free
    /\ owner = "raw"
    /\ view' = Transmute(AsSliceRef, TRUE)
    /\ res' = Result("as_mut", NoKey, Unit)
    /\ UNCHANGED <<inner, cap, owner, iter, yielded, par, last, pushed>>

\* The borrow ends: the reference to the view goes out of scope.
Release ==
    /\ ViewFree
    /\ view' = NoView
    /\ res' = Result("release", NoKey, Unit)
    /\ UNCHANGED <<inner, cap, owner, iter, yielded, par, last, pushed>>

\* TypeKeySlice::get
ViewGet(key) ==
    /\ ViewFree
    /\ res' = Result("view_get", key, SliceViewGet(key))
    /\ UNCHANGED <<inner, cap, owner, view, iter, yielded, par, last, pushed>>

\* TypeKeySlice::get_mut, and a store of x through the reference when one is
\* returned.
ViewGetMut(key, x) ==
    /\ ViewFree
    /\ view.mut
    /\ LET r == SliceViewGetMut(key)
       IN /\ res' = Result("view_get_mut", key, IF IsNone(r) THEN None ELSE Some(r.at, x))
          /\ inner' = IF IsNone(r) THEN inner
                      ELSE WriteBack(inner, view, WriteAt(ViewInner, r.at, x))
          /\ last' = IF KeyInto(key) < view.len
                     THEN [last EXCEPT ![KeyInto(key)] = x] ELSE last
    /\ UNCHANGED <<cap, owner, view, iter, yielded, par, pushed>>

\* Index<K> for TypeKeySlice: view[key]
ViewIndex(key) ==
    /\ ViewFree
    /\ res' = Result("view_index", key, SliceViewIndex(key))
    /\ UNCHANGED <<inner, cap, owner, view, iter, yielded, par, last, pushed>>

\* TypeKeySlice::fill
ViewFill(value) ==
    /\ ViewFree
    /\ view.mut
    /\ inner' = WriteBack(inner, view, SliceFill(ViewInner, value))
    /\ res' = Result("fill", NoKey, Some(0, value))
    /\ last' = [p \in Positions |-> IF p < view.len THEN value ELSE last[p]]
    /\ UNCHANGED <<cap, owner, view, iter, yielded, par, pushed>>

\* ------------------------------------------------- Enumerate

\* slice::Iter / slice::IterMut over the view: the positions [lo, hi) not
\* yet handed out; iter.enumerate() adds the count of items taken in front.
EnumerateNew(m) == [on |-> TRUE, lo |-> 0, hi |-> ViewLen, count |-> 0, mut |-> m]

\* A next that does not advance the count of items taken in front.
EnumNextNoCount(it) ==
    IF it.lo < it.hi
    THEN [ret |-> Item(KeyFrom(it.count), it.lo, At(ViewInner, it.lo)),
          it |-> [it EXCEPT !.lo = @ + 1]]
    ELSE [ret |-> None, it |-> it]

\* Enumerate::next: the inner enumerate's (i, v) mapped to (K::from(i), v).
EnumNext(it) ==
    IF it.lo < it.hi
    THEN [ret |-> Item(KeyFrom(it.count), it.lo, At(ViewInner, it.lo)),
          it |-> [it EXCEPT !.lo = @ + 1, !.count = @ + 1]]
    ELSE [ret |-> None, it |-> it]

\* A next_back that numbers the items in the order they are handed out.
EnumNextBackNaive(it) ==
    IF it.lo < it.hi
    THEN [ret |-> Item(KeyFrom(it.count), it.hi - 1, At(ViewInner, it.hi - 1)),
          it |-> [it EXCEPT !.hi = @ - 1, !.count = @ + 1]]
    ELSE [ret |-> None, it |-> it]

\* Enumerate::next_back: the inner enumerate takes the last element and pairs
\* it with count + (the number of elements left).
EnumNextBack(it) ==
    IF it.lo < it.hi
    THEN LET back == it.hi - 1
             left == back - it.lo
         IN [ret |-> Item(KeyFrom(it.count + left), back, At(ViewInner, back)),
             it |-> [it EXCEPT !.hi = back]]
    ELSE [ret |-> None, it |-> it]

\* Enumerate::size_hint, and ExactSizeIterator::len
SizeHint(it) == it.hi - it.lo

\* TypeKeySlice::enumerate
Enumerate ==
    /\ ViewFree
    /\ iter' = EnumerateNew(FALSE)
    /\ yielded' = <<>>
    /\ res' = Result("enumerate", NoKey, Unit)
    /\ UNCHANGED <<inner, cap, owner, view, par, last, pushed>>

\* TypeKeySlice::enumerate_mut
EnumerateMut ==
    /\ ViewFree
    /\ view.mut
    /\ iter' = EnumerateNew(TRUE)
    /\ yielded' = <<>>
    /\ res' = Result("enumerate_mut", NoKey, Unit)
    /\ UNCHANGED <<inner, cap, owner, view, par, last, pushed>>

\* A call of next() on the adapter.
IterNext ==
    /\ ~Faulted
    /\ iter.on
    /\ LET r == EnumNext(iter)
       IN /\ iter' = r.it
          /\ res' = Result("next", NoKey, r.ret)
          /\ yielded' = IF IsItem(r.ret)
                        THEN Append(yielded, [key |-> r.ret.key, at |-> r.ret.at, end |-> "front"])
                        ELSE yielded
    /\ UNCHANGED <<inner, cap, owner, view, par, last, pushed>>

\* A call of next_back() on the adapter.
IterNextBack ==
    /\ ~Faulted
    /\ iter.on
    /\ LET r == EnumNextBack(iter)
       IN /\ iter' = r.it
          /\ res' = Result("next_back", NoKey, r.ret)
          /\ yielded' = IF IsItem(r.ret)
                        THEN Append(yielded, [key |-> r.ret.key, at |-> r.ret.at, end |-> "back"])
                        ELSE yielded
    /\ UNCHANGED <<inner, cap, owner, view, par, last, pushed>>

\* A store of x through the j-th item handed out by enumerate_mut.
ItemWrite(j, x) ==
    /\ ~Faulted
    /\ iter.on
    /\ iter.mut
    /\ j \in 1..Len(yielded)
    /\ inner' = WriteBack(inner, view, WriteAt(ViewInner, yielded[j].at, x))
    /\ res' = Result("item_write", yielded[j].key, Some(yielded[j].at, x))
    /\ last' = [last EXCEPT ![yielded[j].at] = x]
    /\ UNCHANGED <<cap, owner, view, iter, yielded, par, pushed>>

\* The adapter and the items it handed out go out of scope.
IterDrop ==
    /\ ~Faulted
    /\ iter.on
    /\ iter' = NoIter
    /\ yielded' = <<>>
    /\ res' = Result("iter_drop", NoKey, Unit)
    /\ UNCHANGED <<inner, cap, owner, view, par, last, pushed>>

\* ------------------------------------------------- parallel iteration

\* The elements a traversal started now runs over: those of the live view,
\* or those of the vector.
ParData == IF view = NoView THEN inner ELSE ViewInner

\* A hand-over that leaves the last element out.
IntoParIterShort(s) ==
    [on |-> TRUE,
     tasks |-> SetToBag({[lo |-> 0, hi |-> IF Len(s) = 0 THEN 0 ELSE Len(s) - 1]}),
     seen |-> <<>>]

\* into_par_iter: the whole of the slice is handed to the parallel iterator
\* as one range of positions.
IntoParIter(s) ==
    [on |-> TRUE, tasks |-> SetToBag({[lo |-> 0, hi |-> Len(s)]}), seen |-> <<>>]

\* IntoParallelIterator for &TypeKeyVec / &mut TypeKeyVec
ParIter ==
    /\ Free
    /\ owner = "vec"
    /\ par' = IntoParIter(inner)
    /\ res' = Result("into_par_iter", NoKey, Unit)
    /\ UNCHANGED <<inner, cap, owner, view, iter, yielded, last, pushed>>

\* IntoParallelIterator for &TypeKeySlice / &mut TypeKeySlice
ViewParIter ==
    /\ ViewFree
    /\ par' = IntoParIter(ViewInner)
    /\ res' = Result("into_par_iter", NoKey, Unit)
    /\ UNCHANGED <<inner, cap, owner, view, iter, yielded, last, pushed>>

\* The scheduler splits a range of the traversal in two at mid.
ParSplit(t, mid) ==
    /\ par.on
    /\ BagIn(t, par.tasks)
    /\ t.lo < mid
    /\ mid < t.hi
    /\ par' = [par EXCEPT !.tasks = (@ (-) SetToBag({t}))
                                        (+) SetToBag({[lo |-> t.lo, hi |-> mid]})
                                        (+) SetToBag({[lo |-> mid, hi |-> t.hi]})]
    /\ UNCHANGED <<inner, cap, owner, view, iter, yielded, res, last, pushed>>

\* A worker takes the next element of one of the ranges.
ParWork(t) ==
    /\ par.on
    /\ BagIn(t, par.tasks)
    /\ LET rest == IF t.lo + 1 < t.hi
                   THEN SetToBag({[lo |-> t.lo + 1, hi |-> t.hi]})
                   ELSE EmptyBag
       IN par' = [par EXCEPT
                    !.tasks = IF t.lo < t.hi THEN (@ (-) SetToBag({t})) (+) rest
                              ELSE @ (-) SetToBag({t}),
                    !.seen = IF t.lo < t.hi
                             THEN Append(@, [at |-> t.lo, val |-> At(ParData, t.lo)])
                             ELSE @]
    /\ UNCHANGED <<inner, cap, owner, view, iter, yielded, res, last, pushed>>

\* Every range is done: the workers' results are merged and handed back.
ParJoin ==
    /\ par.on
    /\ par.tasks = EmptyBag
    /\ par' = NoPar
    /\ res' = Result("par_collect", NoKey, [tag |-> "Collected", items |-> par.seen])
    /\ UNCHANGED <<inner, cap, owner, view, iter, yielded, last, pushed>>

Ranges == {[lo |-> a, hi |-> b] : a \in 0..MaxLen, b \in 0..MaxLen}

\* ------------------------------------------------- the specification

Next ==
    \/ New
    \/ \E c \in 0..MaxCap : WithCapacity(c)
    \/ \E s \in Seqs(MaxLen) : \E c \in Len(s)..MaxCap : FromVec(s, c)
    \/ IntoVec
    \/ \E v \in Values : Push(v)
    \/ Clear
    \/ \E k \in Keys : Get(k)
    \/ \E k \in Keys : \E x \in Values : GetMut(k, x)
    \/ \E k \in Keys : Index(k)
    \/ \E k \in Keys : \E x \in Values : IndexMut(k, x)
    \/ Deref
    \/ AsRef
    \/ AsMut
    \/ Release
    \/ \E k \in Keys : ViewGet(k)
    \/ \E k \in Keys : \E x \in Values : ViewGetMut(k, x)
    \/ \E k \in Keys : ViewIndex(k)
    \/ \E v \in Values : ViewFill(v)
    \/ Enumerate
    \/ EnumerateMut
    \/ IterNext
    \/ IterNextBack
    \/ \E j \in 1..MaxLen : \E x \in Values : ItemWrite(j, x)
    \/ IterDrop
    \/ ParIter
    \/ ViewParIter
    \/ \E t \in Ranges : \E mid \in 0..MaxLen : ParSplit(t, mid)
    \/ \E t \in Ranges : ParWork(t)
    \/ ParJoin

Spec == Init /\ [][Next]_vars

\* ------------------------------------------------- properties

\* The length a key is checked against: that of the live view, or that of
\* the vector.
CurLen == IF view = NoView THEN Len(inner) ELSE ViewLen

\* TypeKeyVec::iter / TypeKeySlice::iter: references to the elements in
\* position order.
SeqIter(s) == [i \in 1..Len(s) |-> [at |-> i - 1, val |-> s[i]]]

Count(s, v) == Cardinality({i \in 1..Len(s) : s[i].val = v})

\* C1: starting from an empty vector (new or with_capacity), after N pushes
\* len() is N and get of the key of position i returns the i-th pushed value.
C1_PushThenGet ==
    (pushed.ok /\ owner = "vec") =>
        /\ VecLen = Len(pushed.vals)
        /\ \A key \in Keys :
              KeyInto(key) < Len(pushed.vals) =>
                  VecGet(key) = Some(KeyInto(key), pushed.vals[KeyInto(key) + 1])

C1_Witness ==
    /\ pushed.ok
    /\ pushed.vals = <<"a", "b", "a">>
    /\ VecLen = 3
    /\ res = Result("get", KeyFrom(1), Some(1, "b"))

\* C2: in every reachable state get and get_mut return None, never a fault,
\* for every key whose position is at or past the length, on the vector and
\* on the view.
C2_GetPastEndIsNone ==
    /\ owner = "vec" =>
          \A key \in Keys :
              KeyInto(key) >= VecLen => IsNone(VecGet(key)) /\ IsNone(VecGetMut(key))
    /\ view # NoView =>
          \A key \in Keys :
              KeyInto(key) >= ViewLen =>
                  IsNone(SliceViewGet(key)) /\ IsNone(SliceViewGetMut(key))
    /\ (res.op \in {"get", "get_mut", "view_get", "view_get_mut"}
          /\ KeyInto(res.key) >= CurLen) => IsNone(res.ret)

C2_Witness ==
    /\ res.op = "view_get_mut"
    /\ KeyInto(res.key) = 2
    /\ ViewLen = 2
    /\ inner = <<"b", "b">>
    /\ IsNone(res.ret)

\* C3: enumerate() driven only by next() yields (K::from(0), v0),
\* (K::from(1), v1), ... in position order and then ends; driven only by
\* next_back() it yields the reverse, each element paired with the key of its
\* own position.
C3_EnumerateOrder ==
    iter.on =>
        /\ iter.hi = ViewLen =>
              /\ Len(yielded) = iter.lo
              /\ \A j \in 1..Len(yielded) :
                    yielded[j].key = KeyFrom(j - 1) /\ yielded[j].at = j - 1
              /\ Len(yielded) = ViewLen => IsNone(EnumNext(iter).ret)
        /\ iter.lo = 0 =>
              /\ Len(yielded) = ViewLen - iter.hi
              /\ \A j \in 1..Len(yielded) :
                    /\ yielded[j].key = KeyFrom(ViewLen - j)
                    /\ yielded[j].at = ViewLen - j
              /\ Len(yielded) = ViewLen => IsNone(EnumNextBack(iter).ret)
        /\ (res.op \in {"next", "next_back"} /\ IsItem(res.ret)) =>
              res.ret.val = At(ViewInner, KeyInto(res.ret.key))

C3_Witness ==
    /\ iter.on
    /\ ViewInner = <<"a", "b", "b">>
    /\ Len(yielded) = 3
    /\ \A j \in 1..3 : yielded[j].end = "back"
    /\ res = Result("next_back", NoKey, Item(KeyFrom(0), 0, "a"))

C4_StoredInv == \A p \in Positions : p < Len(inner) => At(inner, p) = last[p]

C4_Frame ==
    (res'.op \in {"index_mut", "get_mut"} /\ IsSome(res'.ret)) =>
        /\ Len(inner') = Len(inner)
        /\ KeyInto(res'.key) < Len(inner)
        /\ \A p \in 0..(Len(inner) - 1) :
              At(inner', p) = IF p = KeyInto(res'.key) THEN res'.ret.val ELSE At(inner, p)

\* C4: for every position p below the length the element at p is the value
\* most recently stored at p, and a write through a key at position p below
\* the length changes position p only, the length and every other position
\* staying as they were.
C4_LastStored == [](C4_StoredInv) /\ [][C4_Frame]_vars

C4_Witness ==
    /\ res = Result("index_mut", KeyFrom(1), Some(1, "b"))
    /\ inner = <<"a", "b", "a">>
    /\ last = Stored(<<"a", "b", "a">>)

C5_Inv ==
    /\ owner = "vec" =>
          \A key \in Keys :
              KeyInto(key) >= VecLen => IsPanic(VecIndex(key)) /\ IsPanic(VecIndexMut(key))
    /\ view # NoView =>
          \A key \in Keys : KeyInto(key) >= ViewLen => IsPanic(SliceViewIndex(key))
    /\ res.op \in {"index", "index_mut", "view_index"} =>
          /\ KeyInto(res.key) >= CurLen => IsPanic(res.ret)
          /\ IsSome(res.ret) => res.ret.at = KeyInto(res.key) /\ res.ret.at < CurLen

C5_FaultKeeps == IsPanic(res'.ret) => inner' = inner /\ cap' = cap /\ view' = view

\* C5: vec[key] (read and write) and view[key] at a position at or past the
\* length fault; they return no value there, and the faulting call leaves the
\* buffer as it was.
C5_IndexPastEndFaults == [](C5_Inv) /\ [][C5_FaultKeeps]_vars

C5_Witness ==
    /\ res = Result("index", KeyFrom(5), Panic)
    /\ Len(inner) = 3

C6_Inv ==
    res.op = "fill" =>
        /\ view # NoView
        /\ \A key \in Keys :
              SliceViewGet(key) = IF KeyInto(key) < ViewLen
                                  THEN Some(KeyInto(key), res.ret.val)
                                  ELSE None

C6_Frame == res'.op = "fill" => ViewLen' = ViewLen /\ Len(inner') = Len(inner)

\* C6: fill(v) on a view of length N sets every position in [0, N) to v and
\* keeps the length: afterwards get returns v at every valid position and
\* None at position N.
C6_FillAll == [](C6_Inv) /\ [][C6_Frame]_vars

C6_Witness ==
    /\ res.op = "fill"
    /\ res.ret.val = "b"
    /\ ViewLen = 3
    /\ inner = <<"b", "b", "b">>

C7_Inv ==
    /\ res.op \in {"new", "with_capacity"} => VecLen = 0 /\ VecIsEmpty
    /\ (pushed.ok /\ pushed.ctor = "with_capacity") => VecLen = Len(pushed.vals)
    /\ Len(inner) <= cap \/ (cap = 0 /\ Len(inner) = 0)

C7_ClearStep ==
    res'.op = "clear" =>
        /\ VecLen' = 0
        /\ VecIsEmpty'
        /\ \A key \in Keys : IsNone(VecGet(key)')
        /\ cap' = cap

\* C7: clear() sets the length to zero (is_empty, and get returns None for
\* every key) and keeps the capacity; a vector made by new or with_capacity
\* has length 0 whatever the hint, and its length counts the pushes.
C7_ClearKeepsCapacity == [](C7_Inv) /\ [][C7_ClearStep]_vars

C7_Witness ==
    /\ res.op = "clear"
    /\ cap = 3
    /\ VecLen = 0
    /\ last = Nothing

\* C8: a view made from a plain buffer of length N shows those N elements at
\* the same positions, its length is the buffer's, and every store through
\* the view (get_mut, fill, an item of enumerate_mut) is in the buffer at the
\* same position.
C8_ViewAliasesBuffer ==
    /\ view # NoView =>
          /\ view.ptr = "inner"
          /\ ViewLen = Len(inner)
          /\ ViewAsSlice = inner
    /\ (res.op \in {"view_get_mut", "item_write"} /\ IsSome(res.ret)) =>
          At(inner, res.ret.at) = res.ret.val
    /\ res.op = "fill" => \A p \in 0..(Len(inner) - 1) : At(inner, p) = res.ret.val

C8_Witness ==
    /\ owner = "raw"
    /\ view.mut
    /\ res = Result("item_write", KeyFrom(2), Some(2, "b"))
    /\ inner = <<"a", "a", "b">>

Visits(p) == {i \in 1..Len(par.seen) : par.seen[i].at = p}

Covering(p) == {t \in BagToSet(par.tasks) : t.lo <= p /\ p < t.hi}

\* C9: a parallel traversal of a container that is not changed meanwhile
\* visits every position exactly once, whatever the splits and the order of
\* the workers, and the merged result is the multiset sequential iteration
\* yields.
C9_ParallelVisitsOnce ==
    /\ par.on =>
          /\ \A p \in 0..(Len(ParData) - 1) :
                /\ Cardinality(Visits(p)) + Cardinality(Covering(p)) = 1
                /\ \A t \in Covering(p) : CopiesIn(t, par.tasks) = 1
          /\ \A i \in 1..Len(par.seen) :
                /\ par.seen[i].at < Len(ParData)
                /\ par.seen[i].val = At(ParData, par.seen[i].at)
    /\ res.op = "par_collect" =>
          /\ Len(res.ret.items) = Len(SeqIter(ParData))
          /\ {res.ret.items[i] : i \in 1..Len(res.ret.items)}
                = {SeqIter(ParData)[i] : i \in 1..Len(ParData)}
          /\ \A v \in Values : Count(res.ret.items, v) = Count(SeqIter(ParData), v)

C9_Witness ==
    /\ res.op = "par_collect"
    /\ Len(res.ret.items) = 3
    /\ res.ret.items[1].at = 2
    /\ res.ret.items[2].at = 0
    /\ inner = <<"a", "b", "a">>

BackCount(j) == Cardinality({i \in 1..j : yielded[i].end = "back"})

FrontCount(j) == Cardinality({i \in 1..j : yielded[i].end = "front"})

\* C10: under any interleaving of next() and next_back() each element is
\* yielded once, paired with the key of its own position (from the back the
\* keys are N-1, N-2, ...), the remaining count is N minus the items yielded,
\* and after N items both next() and next_back() return None.
C10_EnumerateBothEnds ==
    iter.on =>
        /\ \A i, j \in 1..Len(yielded) : i # j => yielded[i].at # yielded[j].at
        /\ \A j \in 1..Len(yielded) :
              /\ yielded[j].at < ViewLen
              /\ KeyInto(yielded[j].key) = yielded[j].at
              /\ yielded[j].end = "back" => yielded[j].at = ViewLen - BackCount(j)
              /\ yielded[j].end = "front" => yielded[j].at = FrontCount(j) - 1
        /\ SizeHint(iter) = ViewLen - Len(yielded)
        /\ Len(yielded) = ViewLen =>
              IsNone(EnumNext(iter).ret) /\ IsNone(EnumNextBack(iter).ret)

C10_Witness ==
    /\ iter.on
    /\ ViewLen = 3
    /\ Len(yielded) = 3
    /\ yielded[1].end = "front"
    /\ yielded[2].end = "back"
    /\ yielded[3].end = "front"
    /\ res = Result("next_back", NoKey, None)

====
